---- MODULE Spec2Model ----
(***************************************************************************)
(* followthemoney/schema.py: the Schema class.  A model of the schema      *)
(* hierarchy resolution (generate), reverse property stubs (_add_reverse), *)
(* the matchable-schema cache and the validation engine.                   *)
(*                                                                         *)
(* A schema is identified by its name (Schema.__eq__/__hash__ compare the  *)
(* hash of the name), so a schema reference is modelled as the name.  A    *)
(* Property object is identified by the pair (declaring schema, name): the *)
(* constructor and _add_reverse create at most one object per pair.        *)
(***************************************************************************)
EXTENDS Naturals, Sequences, FiniteSets, TLC

VARIABLES
    model,                \* names the registry resolves (Model.get is not None)
    _extends,             \* Schema._extends: raw list of parent names
    featured,             \* Schema.featured
    required,             \* Schema.required
    caption,              \* Schema.caption
    edge_source,          \* Schema.edge_source
    edge_target,          \* Schema.edge_target
    matchable,            \* Schema.matchable
    flags,                \* Schema.abstract, Schema.hidden, Schema.generated
    extends,              \* Schema.extends: set of direct parents
    schemata,             \* Schema.schemata
    names,                \* Schema.names
    descendants,          \* Schema.descendants
    properties,           \* Schema.properties: insertion-ordered dict, as the
                          \* sequence of its values (the key is the value's name)
    props,                \* the Property objects that exist, with their fields
    _matchable_schemata,  \* Schema._matchable_schemata: None or the cached set
    validation,           \* the last validate() call: its input and outcome
    matched,              \* the last can_match() call: its arguments and result
    serialized,           \* the last to_dict() call: its schema and result
    stack,                \* the call stack of generate(): one frame per call
    status,               \* "ok", or the exception that ended the load
    generated,            \* schemas for which a generate() call has returned
    declared,             \* the properties and Property objects as constructed
    called,               \* schemas the registry has called in a one-pass load
    first_load            \* None or the outcome of an earlier one-pass load

vars == <<model, _extends, featured, required, caption, edge_source,
          edge_target, matchable, flags, extends, schemata, names,
          descendants, properties, props, _matchable_schemata, validation,
          matched, serialized, stack, status, generated, declared, called,
          first_load>>

\* The registry and the fields that keep the value the constructor gave.
fields == <<model, _extends, featured, required, caption, edge_source,
           edge_target, matchable, flags>>

\* The record the registry keeps of its loads; no method of Schema reads or
\* writes it.
loader == <<declared, called, first_load>>

\* What generate() only reads, and the state of the queries.
defvars == <<fields, _matchable_schemata, validation, matched, serialized>>

None == "None"

\* The reverse field of a property specification that declares no reverse.
NoReverse == "NoReverse"

(***************************************************************************)
(* The universe of the inputs.                                             *)
(***************************************************************************)
SchemaOrder == <<"Thing", "Party", "Firm", "Stake">>

Schemas == {SchemaOrder[i] : i \in 1..Len(SchemaOrder)}

Rank(s) == CHOOSE i \in 1..Len(SchemaOrder) : SchemaOrder[i] = s

\* The longest extends list of a definition.
MaxExtends == 2

PropNames == {"name", "owner", "holdings"}

\* Sequences over S of length at most n without repetition.
RECURSIVE DistinctSeqs(_, _)
DistinctSeqs(S, n) ==
    IF n = 0 THEN {<<>>}
    ELSE LET shorter == DistinctSeqs(S, n - 1)
         IN  shorter \cup
             {Append(q, x) : <<q, x>> \in
                 {<<q, x>> \in shorter \X S :
                     \A i \in 1..Len(q) : q[i] # x}}

\* The extends lists of an acyclic definition set: a schema names only
\* schemas placed before it in SchemaOrder.
AcyclicExtends ==
    {e \in [Schemas -> DistinctSeqs(Schemas, MaxExtends)] :
        \A s \in Schemas : \A i \in 1..Len(e[s]) : Rank(e[s][i]) < Rank(s)}

(***************************************************************************)
(* Property (followthemoney/property.py, outside src/): the constructor    *)
(* keeps the owning schema, the name, the range and the reverse            *)
(* declaration; stub is False until _add_reverse sets it.                  *)
(***************************************************************************)
PropertyId(schema, name) == [schema |-> schema, name |-> name]

Property(range, reverse) == [stub |-> FALSE, range |-> range, reverse |-> reverse]

\* The keys of a properties dict.
Keys(d) == {d[i].name : i \in 1..Len(d)}

\* Schema.get (lines 322-326) on a properties dict d: whether the result is
\* a property (not None), and the property.
has(d, name) == name # None /\ name \in Keys(d)

get(d, name) == d[CHOOSE i \in 1..Len(d) : d[i].name = name]

\* Model.get: the registry's lookup of a schema by name.
model_get(name) == IF name \in model THEN name ELSE None

(***************************************************************************)
(* The heap the property-level calls work on: the properties dict of every *)
(* schema, the Property objects, and the exception raised, if any.         *)
(***************************************************************************)
Heap(d, o) == [properties |-> d, props |-> o, err |-> None]

RECURSIVE _add_reverse(_, _, _, _), Property_generate(_, _)

\* Mutant of _add_reverse: an existing reverse stub does not count as
\* present (line 237), so it is synthesized and stored once more.
_add_reverse_again(h, self, name, other) ==
    IF name = None THEN [h EXCEPT !.err = "Unnamed reverse"]
    ELSE IF has(h.properties[self], name)
            /\ ~h.props[get(h.properties[self], name)].stub THEN h
    ELSE LET prop == PropertyId(self, name)
             spec == [stub |-> TRUE, range |-> other.schema,
                      reverse |-> other.name]
             made == [h EXCEPT !.props = (prop :> spec) @@ @]
             done == Property_generate(made, prop)
         IN  IF done.err # None THEN done
             ELSE [done EXCEPT !.properties[self] = Append(@, prop)]

\* Mutant of _add_reverse: line 248 assigns a new dict that holds the stub
\* alone.
_add_reverse_alone(h, self, name, other) ==
    IF name = None THEN [h EXCEPT !.err = "Unnamed reverse"]
    ELSE IF has(h.properties[self], name) THEN h
    ELSE LET prop == PropertyId(self, name)
             spec == [stub |-> TRUE, range |-> other.schema,
                      reverse |-> other.name]
             made == [h EXCEPT !.props = (prop :> spec) @@ @]
             done == Property_generate(made, prop)
         IN  IF done.err # None THEN done
             ELSE [done EXCEPT !.properties[self] = <<prop>>]

\* Mutant of _add_reverse: line 246 is missing, the synthesized property is
\* not marked as a stub.
_add_reverse_unmarked(h, self, name, other) ==
    IF name = None THEN [h EXCEPT !.err = "Unnamed reverse"]
    ELSE IF has(h.properties[self], name) THEN h
    ELSE LET prop == PropertyId(self, name)
             spec == [stub |-> FALSE, range |-> other.schema,
                      reverse |-> other.name]
             made == [h EXCEPT !.props = (prop :> spec) @@ @]
             done == Property_generate(made, prop)
         IN  IF done.err # None THEN done
             ELSE [done EXCEPT !.properties[self] = Append(@, prop)]

\* Schema._add_reverse(self, data, other), lines 231-249; name is
\* data.get("name").  The new stub is generated before it is stored.
_add_reverse(h, self, name, other) ==
    IF name = None THEN [h EXCEPT !.err = "Unnamed reverse"]
    ELSE IF has(h.properties[self], name) THEN h
    ELSE LET prop == PropertyId(self, name)
             spec == [stub |-> TRUE, range |-> other.schema,
                      reverse |-> other.name]
             made == [h EXCEPT !.props = (prop :> spec) @@ @]
             done == Property_generate(made, prop)
         IN  IF done.err # None THEN done
             ELSE [done EXCEPT !.properties[self] = Append(@, prop)]

\* Property.generate (followthemoney/property.py, outside src/): a property
\* that declares a reverse asks the schema of its range for the reverse stub.
Property_generate(h, prop) ==
    LET p == h.props[prop]
    IN  IF p.reverse = NoReverse \/ p.range = None THEN h
        ELSE _add_reverse(h, p.range, p.reverse, prop)

\* Lines 207-208: prop.generate() for each value of a snapshot of the dict.
RECURSIVE generate_properties(_, _, _)
generate_properties(h, vals, k) ==
    IF k > Len(vals) \/ h.err # None THEN h
    ELSE generate_properties(Property_generate(h, vals[k]), vals, k + 1)

\* Mutant of merge_properties: the test of line 198 inverted, so that the
\* parent's entry replaces an entry the schema has and no new name is added.
merge_properties_inverted(own, inherited) ==
    [i \in 1..Len(own) |->
        IF has(inherited, own[i].name) THEN get(inherited, own[i].name)
        ELSE own[i]]

\* Mutant of merge_properties: line 199 without the test of line 198, so
\* that the entry of a later parent replaces the one the schema has.
merge_properties_override(own, inherited) ==
    [i \in 1..Len(own) |->
        IF has(inherited, own[i].name) THEN get(inherited, own[i].name)
        ELSE own[i]]
    \o SelectSeq(inherited, LAMBDA p : p.name \notin Keys(own))

\* Lines 197-199: the parent's entries, in the parent's order, for the names
\* the schema does not have yet.
merge_properties(own, inherited) ==
    own \o SelectSeq(inherited, LAMBDA p : p.name \notin Keys(own))

\* Line 159: Schema.edge.
edge(s) == edge_source[s] # None /\ edge_target[s] # None

Missing(d, lst) == \E i \in 1..Len(lst) : ~has(d, lst[i])

\* Mutant of check_names: the loop over self.caption is missing.
check_names_no_caption(s, d) ==
    IF Missing(d, featured[s]) THEN "Missing featured property"
    ELSE IF Missing(d, required[s]) THEN "Missing required property"
    ELSE IF edge(s) /\ ~has(d, edge_source[s]) THEN "Missing edge source"
    ELSE IF edge(s) /\ ~has(d, edge_target[s]) THEN "Missing edge target"
    ELSE None

\* Lines 210-229: the first check that fails, or None.
check_names(s, d) ==
    IF Missing(d, featured[s]) THEN "Missing featured property"
    ELSE IF Missing(d, caption[s]) THEN "Missing caption property"
    ELSE IF Missing(d, required[s]) THEN "Missing required property"
    ELSE IF edge(s) /\ ~has(d, edge_source[s]) THEN "Missing edge source"
    ELSE IF edge(s) /\ ~has(d, edge_target[s]) THEN "Missing edge target"
    ELSE None

\* Lines 207-229 for schema s: the heap after the property pass, with err the
\* exception of the pass or of the checks.
generate_tail(s) ==
    LET h == generate_properties(Heap(properties, props), properties[s], 1)
    IN  IF h.err # None THEN h
        ELSE [h EXCEPT !.err = check_names(s, h.properties[s])]

(***************************************************************************)
(* generate() as a call stack.  A frame is one call: self, the index i of  *)
(* the for loop over _extends and the position pc ("for": at the head of   *)
(* the loop, "merge": parent.generate() has been called).  entry and again *)
(* are history: the properties, schemata and descendants at the time of    *)
(* the call, and whether a call on self had returned before.               *)
(***************************************************************************)
Frame(s) ==
    [self |-> s, i |-> 1, pc |-> "for", again |-> s \in generated,
     entry |-> [properties |-> properties, schemata |-> schemata,
                descendants |-> descendants]]

Top == stack[Len(stack)]

Pop == SubSeq(stack, 1, Len(stack) - 1)

Running == status = "ok" /\ stack # <<>>

\* The validation variable when validate() was not the last operation.
NoValidation ==
    [schema |-> None, data |-> [properties |-> [kind |-> "none"]],
     errors |-> <<>>, raised |-> FALSE]

\* A dict without keys.
EmptyDict == [k \in {} |-> None]

\* The serialized variable when to_dict() was not the last operation.
NoDict == [schema |-> None, data |-> EmptyDict]

\* The matched variable when can_match() was not the last operation.
NoMatch == [self |-> None, other |-> None, result |-> FALSE]

\* The registry calls schema.generate() (Model, outside src/).
Call(s) ==
    /\ status = "ok" /\ stack = <<>>
    /\ s \in model
    /\ stack' = <<Frame(s)>>
    /\ validation' = NoValidation
    /\ matched' = NoMatch
    /\ serialized' = NoDict
    /\ UNCHANGED <<loader, fields, _matchable_schemata, extends, schemata,
                   names, descendants, properties, props, status, generated>>

\* Mutant of Recurse: self.generate() in the place of parent.generate().
Recurse_self ==
    /\ Running /\ Top.pc = "for" /\ Top.i <= Len(_extends[Top.self])
    /\ LET parent == model_get(_extends[Top.self][Top.i])
       IN  /\ parent # None
           /\ stack' = Append([stack EXCEPT ![Len(stack)].pc = "merge"],
                              Frame(Top.self))
    /\ UNCHANGED <<loader, defvars, extends, schemata, names, descendants,
                   properties, props, status, generated>>

\* The depth of the call stack at which the interpreter raises
\* RecursionError in the place of one more call.
RecursionLimit == 6

\* Lines 191-195, parent found: parent.generate().
Recurse ==
    /\ Running /\ Top.pc = "for" /\ Top.i <= Len(_extends[Top.self])
    /\ Len(stack) < RecursionLimit
    /\ LET parent == model_get(_extends[Top.self][Top.i])
       IN  /\ parent # None
           /\ stack' = Append([stack EXCEPT ![Len(stack)].pc = "merge"],
                              Frame(parent))
    /\ UNCHANGED <<loader, defvars, extends, schemata, names, descendants,
                   properties, props, status, generated>>

\* Mutant of RecursionError: the recursion ends in InvalidData, as if the
\* cycle had been detected.
RecursionError_detected ==
    /\ Running /\ Top.pc = "for" /\ Top.i <= Len(_extends[Top.self])
    /\ model_get(_extends[Top.self][Top.i]) # None
    /\ Len(stack) >= RecursionLimit
    /\ status' = "Invalid extends"
    /\ stack' = <<>>
    /\ UNCHANGED <<loader, defvars, extends, schemata, names, descendants,
                   properties, props, generated>>

\* Line 195 at the recursion limit: parent.generate() raises RecursionError,
\* which propagates through every caller.
RecursionError ==
    /\ Running /\ Top.pc = "for" /\ Top.i <= Len(_extends[Top.self])
    /\ model_get(_extends[Top.self][Top.i]) # None
    /\ Len(stack) >= RecursionLimit
    /\ status' = "RecursionError"
    /\ stack' = <<>>
    /\ UNCHANGED <<loader, defvars, extends, schemata, names, descendants,
                   properties, props, generated>>

\* Mutant of InvalidExtends: the missing parent is skipped.
InvalidExtends_skip ==
    /\ Running /\ Top.pc = "for" /\ Top.i <= Len(_extends[Top.self])
    /\ model_get(_extends[Top.self][Top.i]) = None
    /\ stack' = [stack EXCEPT ![Len(stack)].i = @ + 1]
    /\ UNCHANGED <<loader, defvars, extends, schemata, names, descendants,
                   properties, props, status, generated>>

\* Lines 192-194: the parent is not in the registry; InvalidData propagates
\* through every caller.
InvalidExtends ==
    /\ Running /\ Top.pc = "for" /\ Top.i <= Len(_extends[Top.self])
    /\ model_get(_extends[Top.self][Top.i]) = None
    /\ status' = "Invalid extends"
    /\ stack' = <<>>
    /\ UNCHANGED <<loader, defvars, extends, schemata, names, descendants,
                   properties, props, generated>>

\* Mutant of add_schemata: only the direct parent is added.
add_schemata_direct(own, parent) == own \cup {parent}

\* Lines 202-203: self.schemata after the loop over parent.schemata.
add_schemata(own, parent) == own \cup schemata[parent]

\* Lines 202 and 204: self.names after the loop; ancestor.name is the name
\* that identifies the ancestor.
add_names(own, parent) == own \cup {ancestor : ancestor \in schemata[parent]}

\* Mutant of add_descendant: only the direct parent learns of the schema.
add_descendant_direct(a, self, parent) ==
    IF a = parent THEN descendants[a] \cup {self} ELSE descendants[a]

\* Lines 202 and 205: the descendants of schema a after the loop.
add_descendant(a, self, parent) ==
    IF a \in schemata[parent] THEN descendants[a] \cup {self}
    ELSE descendants[a]

\* Lines 197-205 after parent.generate() has returned.
Merge ==
    /\ Running /\ Top.pc = "merge"
    /\ LET self == Top.self
           parent == model_get(_extends[self][Top.i])
       IN  /\ properties' = [properties EXCEPT ![self] =
                                merge_properties(@, properties[parent])]
           /\ extends' = [extends EXCEPT ![self] = @ \cup {parent}]
           /\ schemata' = [schemata EXCEPT ![self] = add_schemata(@, parent)]
           /\ names' = [names EXCEPT ![self] = add_names(@, parent)]
           /\ descendants' = [a \in Schemas |->
                                add_descendant(a, self, parent)]
    /\ stack' = [stack EXCEPT ![Len(stack)].pc = "for",
                              ![Len(stack)].i = @ + 1]
    /\ UNCHANGED <<loader, defvars, props, status, generated>>

\* Lines 207-229 without an exception: generate() returns.
Return ==
    /\ Running /\ Top.pc = "for" /\ Top.i > Len(_extends[Top.self])
    /\ LET h == generate_tail(Top.self)
       IN  /\ h.err = None
           /\ properties' = h.properties
           /\ props' = h.props
    /\ generated' = generated \cup {Top.self}
    /\ stack' = Pop
    /\ UNCHANGED <<loader, defvars, extends, schemata, names, descendants,
                   status>>

\* Lines 207-229 with an exception (InvalidModel), which ends the load.
Raise ==
    /\ Running /\ Top.pc = "for" /\ Top.i > Len(_extends[Top.self])
    /\ LET h == generate_tail(Top.self)
       IN  /\ h.err # None
           /\ properties' = h.properties
           /\ props' = h.props
           /\ status' = h.err
    /\ stack' = <<>>
    /\ UNCHANGED <<loader, defvars, extends, schemata, names, descendants,
                   generated>>

Generate == Recurse \/ InvalidExtends \/ Merge \/ Return \/ Raise

(***************************************************************************)
(* validate(), lines 328-345.  A Python value of the input is a record     *)
(* with its kind: None, a scalar, a list or a dict.                        *)
(***************************************************************************)
PyNone == [kind |-> "none"]

PyScalar(v) == [kind |-> "scalar", v |-> v]

PyList(v) == [kind |-> "list", v |-> v]

PyDict(items) == [kind |-> "dict", items |-> items]

\* banal.ensure_list: a list as it is, None as the empty list, any other
\* value as the list of that value.
ensure_list(x) ==
    CASE x.kind = "list" -> x.v
      [] x.kind = "none" -> <<>>
      [] OTHER -> <<x.v>>

\* banal.ensure_dict: a dict as it is, any other value as the empty dict.
ensure_dict(x) == IF x.kind = "dict" THEN x.items ELSE [k \in {} |-> PyNone]

\* properties.get(name, []) of line 335.
dict_get(items, name) ==
    IF name \in DOMAIN items THEN items[name] ELSE PyList(<<>>)

\* Property.validate (followthemoney/property.py, outside src/): the error
\* of the first value the property's type rejects, or None.
Property_validate(prop, values) ==
    IF \E i \in 1..Len(values) : values[i] = "bad" THEN "Invalid value"
    ELSE None

InList(x, lst) == \E i \in 1..Len(lst) : lst[i] = x

\* Lines 335-339: the error of the property at position k of the dict.
property_error(self, items, k) ==
    LET prop == properties[self][k]
        values == ensure_list(dict_get(items, prop.name))
        error == Property_validate(prop, values)
    IN  IF error = None /\ Len(values) = 0 /\ InList(prop.name, required[self])
        THEN "Required"
        ELSE error

\* Mutant of validate_errors: the loop ends at the first error.
RECURSIVE validate_errors_first(_, _, _, _)
validate_errors_first(self, items, k, errors) ==
    IF k > Len(properties[self]) \/ errors # <<>> THEN errors
    ELSE LET error == property_error(self, items, k)
         IN  validate_errors_first(self, items, k + 1,
                 IF error # None
                 THEN Append(errors, [name |-> properties[self][k].name,
                                      error |-> error])
                 ELSE errors)

\* Lines 332-341: the errors dict after the loop over self.properties.
RECURSIVE validate_errors(_, _, _, _)
validate_errors(self, items, k, errors) ==
    IF k > Len(properties[self]) THEN errors
    ELSE LET error == property_error(self, items, k)
         IN  validate_errors(self, items, k + 1,
                 IF error # None
                 THEN Append(errors, [name |-> properties[self][k].name,
                                      error |-> error])
                 ELSE errors)

\* The load has completed: a generate() call has returned for every schema
\* of the registry, no call is running and nothing was raised.
Loaded == status = "ok" /\ stack = <<>> /\ generated = model

\* validate(data) on schema self, after the load: InvalidData is raised
\* with the errors when there are any (lines 342-344).  No line writes to
\* data or to its "properties": validation.data is the caller's bag as it
\* is after the call.
\* The outcome of one call is observed until the next generate() call.
Validate(self, data) ==
    /\ Loaded
    /\ validation = NoValidation
    /\ self \in model
    /\ LET errors == validate_errors(self, ensure_dict(data.properties), 1,
                                     <<>>)
       IN  validation' = [schema |-> self, data |-> data, errors |-> errors,
                          raised |-> Len(errors) > 0]
    /\ UNCHANGED <<loader, fields, _matchable_schemata, matched, serialized,
                   extends, schemata, names, descendants, properties, props,
                   stack, status, generated>>

(***************************************************************************)
(* matchable_schemata and can_match, lines 294-315.  The cache           *)
(* _matchable_schemata of a schema is <<>> for None and <<S>> for the set  *)
(* S.                                                                      *)
(***************************************************************************)
\* Mutant of candidates: the descendants are not added.
candidates_own(self) == schemata[self]

\* Lines 306-307: the schemata of self, updated with its descendants.
candidates(self) == schemata[self] \cup descendants[self]

\* Mutant of matchable_schemata: every candidate is added.
matchable_schemata_unfiltered(cache, self) ==
    IF cache[self] # <<>> THEN cache
    ELSE [cache EXCEPT ![self] =
             <<IF matchable[self] THEN candidates(self) ELSE {}>>]

\* Mutant of matchable_schemata: the test of line 299 is missing, so that
\* every read computes the set.
matchable_schemata_fresh(cache, self) ==
    [cache EXCEPT ![self] =
        <<IF matchable[self]
          THEN {schema \in candidates(self) : matchable[schema]}
          ELSE {}>>]

\* Lines 299-311: the caches after self.matchable_schemata was read; the
\* value read is the cache of self.
matchable_schemata(cache, self) ==
    IF cache[self] # <<>> THEN cache
    ELSE [cache EXCEPT ![self] =
             <<IF matchable[self]
               THEN {schema \in candidates(self) : matchable[schema]}
               ELSE {}>>]

\* A caller reads schema.matchable_schemata after the load.
MatchableSchemata(self) ==
    /\ Loaded
    /\ self \in model
    /\ _matchable_schemata' = matchable_schemata(_matchable_schemata, self)
    /\ UNCHANGED <<loader, fields, validation, matched, serialized, extends,
                   schemata, names, descendants, properties, props, stack,
                   status, generated>>

\* A caller reads schema.matchable_schemata before the load has completed,
\* between two calls of the registry.
ReadDuringLoad(self) ==
    /\ status = "ok" /\ stack = <<>> /\ generated # model
    /\ self \in model
    /\ _matchable_schemata' = matchable_schemata(_matchable_schemata, self)
    /\ UNCHANGED <<loader, fields, validation, matched, serialized, extends,
                   schemata, names, descendants, properties, props, stack,
                   status, generated>>

\* can_match(other) on schema self, after the load (lines 313-315).
CanMatch(self, other) ==
    /\ Loaded
    /\ self \in model /\ other \in model
    /\ LET cache == matchable_schemata(_matchable_schemata, self)
       IN  /\ _matchable_schemata' = cache
           /\ matched' = [self |-> self, other |-> other,
                          result |-> other \in cache[self][1]]
    /\ UNCHANGED <<loader, fields, validation, serialized, extends, schemata,
                   names, descendants, properties, props, stack, status,
                   generated>>

(***************************************************************************)
(* to_dict, lines 347-384.  A dict is a function of its keys.  The labels, *)
(* the description and the edge entry, which needs a label, are left out;  *)
(* the entry of a property is its name.                                    *)
(***************************************************************************)
\* The schema names in the order of Python's string comparison.
Alphabet == <<"Firm", "Party", "Stake", "Thing">>

\* list(sorted(S)) for a set S of names.
Sorted(S) == SelectSeq(Alphabet, LAMBDA x : x \in S)

\* The entry of key k, present when cond holds.
Entry(cond, k, v) == IF cond THEN k :> v ELSE EmptyDict

\* Mutant of own_properties: the test of line 381 is missing.
own_properties_all(self) ==
    [i \in 1..Len(properties[self]) |-> properties[self][i].name]

\* Lines 379-382: the names of the properties whose schema is self.
own_properties(self) ==
    LET own == SelectSeq(properties[self], LAMBDA p : p.schema = self)
    IN  [i \in 1..Len(own) |-> own[i].name]

\* Lines 349-384.
to_dict(self) ==
    ("schemata" :> Sorted(names[self]))
    @@ ("extends" :> Sorted(extends[self]))
    @@ Entry(Len(featured[self]) > 0, "featured", featured[self])
    @@ Entry(Len(required[self]) > 0, "required", required[self])
    @@ Entry(Len(caption[self]) > 0, "caption", caption[self])
    @@ Entry(flags[self].abstract, "abstract", TRUE)
    @@ Entry(flags[self].hidden, "hidden", TRUE)
    @@ Entry(flags[self].generated, "generated", TRUE)
    @@ Entry(matchable[self], "matchable", TRUE)
    @@ ("properties" :> own_properties(self))

\* A caller serializes schema self after the load.
ToDict(self) ==
    /\ Loaded
    /\ self \in model
    /\ serialized' = [schema |-> self, data |-> to_dict(self)]
    /\ UNCHANGED <<loader, fields, _matchable_schemata, validation, matched,
                   extends, schemata, names, descendants, properties, props,
                   stack, status, generated>>

(***************************************************************************)
(* Construction: Schema.__init__ for every registered name.                *)
(***************************************************************************)
\* banal.as_bool for None and for a bool (lines 120-134).
as_bool(x, default) == IF x.kind = "none" THEN default ELSE x.v

\* A property specification of the raw data.
PropertySpec(name, range, reverse) ==
    [name |-> name, range |-> range, reverse |-> reverse]

DeclIds(decl) ==
    UNION {{PropertyId(s, decl[s][i].name) : i \in 1..Len(decl[s])} :
              s \in Schemas}

\* A definition set: the registry and, per name, the fields of the raw
\* SchemaSpec that the model reads (lines 32-47).
SchemaSpecs(m, e, decl) ==
    [model |-> m, extends |-> e, properties |-> decl,
     featured |-> [s \in Schemas |-> <<>>],
     required |-> [s \in Schemas |-> <<>>],
     caption |-> [s \in Schemas |-> <<>>],
     edge |-> [s \in Schemas |-> [source |-> None, target |-> None]],
     abstract |-> [s \in Schemas |-> PyNone],
     hidden |-> [s \in Schemas |-> PyNone],
     generated |-> [s \in Schemas |-> PyNone],
     matchable |-> [s \in Schemas |-> PyNone]]

\* Schema.__init__ (lines 106-186) for every name of the definition set d.
Construct(d) ==
    /\ model = d.model
    /\ matchable = [s \in Schemas |-> as_bool(d.matchable[s], TRUE)]
    /\ flags = [s \in Schemas |->
                  LET abstract == as_bool(d.abstract[s], FALSE)
                  IN  [abstract |-> abstract,
                       hidden |-> as_bool(d.hidden[s], FALSE) /\ ~abstract,
                       generated |-> as_bool(d.generated[s], FALSE)]]
    /\ featured = d.featured
    /\ required = d.required
    /\ caption = d.caption
    /\ edge_source = [s \in Schemas |-> d.edge[s].source]
    /\ edge_target = [s \in Schemas |-> d.edge[s].target]
    /\ _extends = d.extends
    /\ extends = [s \in Schemas |-> {}]
    /\ schemata = [s \in Schemas |-> {s}]
    /\ names = [s \in Schemas |-> {s}]
    /\ descendants = [s \in Schemas |-> {}]
    /\ _matchable_schemata = [s \in Schemas |-> <<>>]
    /\ properties = [s \in Schemas |->
                        [i \in 1..Len(d.properties[s]) |->
                            PropertyId(s, d.properties[s][i].name)]]
    /\ props = [id \in DeclIds(d.properties) |->
                   LET decl == d.properties[id.schema]
                       i == CHOOSE i \in 1..Len(decl) : decl[i].name = id.name
                   IN  Property(decl[i].range, decl[i].reverse)]
    /\ validation = NoValidation
    /\ matched = NoMatch
    /\ serialized = NoDict
    /\ stack = <<>>
    /\ status = "ok"
    /\ generated = {}
    /\ declared = [properties |-> properties, props |-> props]
    /\ called = {}
    /\ first_load = <<>>

\* The registry holds every name, or every name but one.
Registries == {Schemas} \cup {Schemas \ {s} : s \in Schemas}

\* Declarations: the schemas of plain declare "name"; link is <<>> or
\* <<o, g, r>>: schema o declares "owner" with range g and reverse name r.
Declared(plain, link) ==
    [s \in Schemas |->
        (IF s \in plain THEN <<PropertySpec("name", None, NoReverse)>>
         ELSE <<>>) \o
        (IF link # <<>> /\ link[1] = s
         THEN <<PropertySpec("owner", link[2], link[3])>> ELSE <<>>)]

\* The links of a definition set: none, or "owner" declared by any schema
\* with any range, its reverse named "holdings" or, like the declared
\* property, "name"; where nothing declares "name", a reverse without a name
\* declared by one schema for itself.
Links(plain) ==
    {<<>>} \cup (IF plain = {} THEN {<<s, s, None>> : s \in Schemas}
                 ELSE Schemas \X Schemas \X {"holdings", "name"})

PlainChoices == {{}, {"Thing", "Party"}}

\* Every acyclic hierarchy without properties over a registry that lacks
\* one name.
Unregistered ==
    {SchemaSpecs(m, e, Declared({}, <<>>)) :
        <<m, e>> \in {<<m, e>> \in (Registries \ {Schemas}) \X AcyclicExtends :
                        \A s \in Schemas \ m : e[s] = <<>>}}

\* The definitions of the load: every acyclic hierarchy over a registry that
\* resolves every name, with the declarations above, and the hierarchies
\* over a registry that lacks a name.
Definitions ==
    {SchemaSpecs(Schemas, e, Declared(plain, link)) :
        <<e, plain, link>> \in
            {<<e, plain, link>> \in
                AcyclicExtends \X PlainChoices \X Links({"Thing"}) \cup
                AcyclicExtends \X PlainChoices \X Links({}) :
                    link \in Links(plain)}}
    \cup Unregistered

Init == \E d \in Definitions : Construct(d)

Next == (\E s \in Schemas : Call(s)) \/ Generate

Spec == Init /\ [][Next]_vars

\* The hierarchies alone: the definitions without a declared "name".
InitHierarchy ==
    \E d \in Definitions :
        /\ \A s \in Schemas : "name" \notin Keys(d.properties[s])
        /\ Construct(d)

\* The lists and the edge of schema "Stake": one of featured, caption and
\* required names declared, inherited, synthesized or missing properties, or
\* the edge has one or both endpoints, or all of them are given.
Lists(f, c, r, es, et) ==
    [featured |-> f, caption |-> c, required |-> r,
     edge |-> [source |-> es, target |-> et]]

ListChoices ==
    {Lists(l, <<>>, <<>>, None, None) : l \in {<<"name">>, <<"holdings">>}}
    \cup {Lists(<<>>, l, <<>>, None, None) :
            l \in {<<"holdings">>, <<"name", "holdings">>}}
    \cup {Lists(<<>>, <<>>, l, None, None) :
            l \in {<<"name">>, <<"holdings", "name">>}}
    \cup {Lists(<<>>, <<>>, <<>>, x[1], x[2]) :
            x \in {<<"name", "holdings">>, <<"holdings", "name">>,
                   <<"name", None>>, <<"holdings", "holdings">>}}
    \cup {Lists(<<"name">>, <<"name">>, <<"holdings">>, "name", "owner")}

WithLists(d, s, l) ==
    [d EXCEPT !.featured[s] = l.featured, !.caption[s] = l.caption,
              !.required[s] = l.required, !.edge[s] = l.edge]

\* The definitions with lists: every acyclic hierarchy where "Party" extends
\* "Thing", both declaring "name", a link whose stub lands on "Stake" or on
\* "Thing", and the lists of "Stake"; and the hierarchies over a registry
\* that lacks a name.
ListLinks ==
    {<<"Stake", "Stake", "holdings">>, <<"Firm", "Stake", "holdings">>,
     <<"Firm", "Thing", "holdings">>}

ListDefinitions ==
    {WithLists(SchemaSpecs(Schemas, x[1], Declared({"Thing", "Party"}, x[2])),
               "Stake", x[3]) :
        x \in {e \in AcyclicExtends : e["Party"] = <<"Thing">>}
                 \X ListLinks \X ListChoices}
    \cup Unregistered

InitLists == \E d \in ListDefinitions : Construct(d)

ListSpec == InitLists /\ [][Next]_vars

\* The inputs of validate(): no "properties", or a dict that gives some of
\* the property names None, a scalar or a list, of values that are valid or
\* not, with or without an invalid value under a key that is no property.
InputKeys == {"name", "owner"}

InputValues == {PyNone, PyScalar("bad"), PyList(<<>>), PyList(<<"ok">>)}

Unknown == {[k \in {} |-> PyNone], [k \in {"junk"} |-> PyScalar("bad")]}

Inputs ==
    {[properties |-> PyNone]} \cup
    {[properties |-> PyDict(x[1] @@ x[2])] :
        x \in (UNION {[K -> InputValues] : K \in SUBSET InputKeys}) \X Unknown}

\* The definitions for validate(): the chain "Thing", "Party", "Firm" with
\* "name" declared twice, "Stake" below any of them, a link declared by
\* "Stake" or "Firm", and the required list of "Stake"; and the hierarchies
\* over a registry that lacks a name.
ValidateDefinitions ==
    {WithLists(SchemaSpecs(Schemas, x[1], Declared({"Thing", "Party"}, x[2])),
               "Stake", Lists(<<>>, <<>>, x[3], None, None)) :
        x \in {e \in AcyclicExtends :
                  e["Party"] = <<"Thing">> /\ e["Firm"] = <<"Party">>}
              \X {<<"Stake", "Thing", "holdings">>,
                  <<"Firm", "Stake", "holdings">>}
              \X {<<>>, <<"name">>, <<"owner", "name">>}}
    \cup Unregistered

InitValidate == \E d \in ValidateDefinitions : Construct(d)

NextValidate ==
    Next \/ (\E s \in Schemas, data \in Inputs : Validate(s, data))

ValidateSpec == InitValidate /\ [][NextValidate]_vars

\* The definitions for matching: the chain "Thing", "Party", "Firm" with
\* "Stake" anywhere below, without properties and with every choice of the
\* matchable flags; the chain with a reverse that has no name; and the
\* hierarchies over a registry that lacks a name.
WithMatchable(d, given) ==
    [d EXCEPT !.matchable = [s \in Schemas |-> PyScalar(given[s])]]

MatchHierarchies ==
    {e \in AcyclicExtends :
        e["Party"] = <<"Thing">> /\ e["Firm"] = <<"Party">>}

MatchDefinitions ==
    {WithMatchable(SchemaSpecs(Schemas, x[1], Declared({}, <<>>)), x[2]) :
        x \in MatchHierarchies \X [Schemas -> BOOLEAN]}
    \cup {SchemaSpecs(Schemas, e, Declared({}, <<"Stake", "Stake", None>>)) :
            e \in MatchHierarchies}
    \cup Unregistered

InitMatch == \E d \in MatchDefinitions : Construct(d)

NextMatch ==
    \/ Next
    \/ \E s \in Schemas : MatchableSchemata(s)
    \/ \E s \in Schemas, other \in Schemas : CanMatch(s, other)

MatchSpec == InitMatch /\ [][NextMatch]_vars

\* The definitions for to_dict(): the chain "Thing", "Party", "Firm" with
\* "Stake" anywhere below; "Thing" and "Party" declare "name" and "Stake" or
\* "Firm" declares a link whose stub lands on "Thing" or on "Stake"; the
\* flags of "Stake" are all absent, or one of them is given as True or as
\* False, or abstract and hidden are both True.  With them the chain with
\* a reverse that has no name and the hierarchies over a registry that
\* lacks a name.
WithFlags(d, s, given) ==
    [d EXCEPT !.abstract[s] = given.abstract, !.hidden[s] = given.hidden,
              !.generated[s] = given.generated,
              !.matchable[s] = given.matchable]

FlagNames == {"abstract", "hidden", "generated", "matchable"}

FlagChoices ==
    {[k \in FlagNames |-> PyNone]}
    \cup {[k \in FlagNames |-> IF k = f THEN PyScalar(b) ELSE PyNone] :
            f \in FlagNames, b \in BOOLEAN}
    \cup {[k \in FlagNames |->
              IF k \in {"abstract", "hidden"} THEN PyScalar(TRUE) ELSE PyNone]}

DictLinks ==
    {<<"Stake", "Thing", "holdings">>, <<"Firm", "Stake", "holdings">>}

DictDefinitions ==
    {WithFlags(SchemaSpecs(Schemas, x[1],
                           Declared({"Thing", "Party"}, x[2])),
               "Stake", x[3]) :
        x \in MatchHierarchies \X DictLinks \X FlagChoices}
    \cup {SchemaSpecs(Schemas, e, Declared({}, <<"Stake", "Stake", None>>)) :
            e \in MatchHierarchies}
    \cup Unregistered

InitDict == \E d \in DictDefinitions : Construct(d)

NextDict == Next \/ (\E s \in Schemas : ToDict(s))

DictSpec == InitDict /\ [][NextDict]_vars

\* The reads of matchable_schemata at any time between the calls of the
\* registry, over the definitions for matching.
NextEarly ==
    \/ Next
    \/ \E s \in Schemas : ReadDuringLoad(s)
    \/ \E s \in Schemas : MatchableSchemata(s)

EarlySpec == InitMatch /\ [][NextEarly]_vars

\* The cyclic definitions: "Thing", "Party" and "Firm" extend nothing or
\* one schema, "Stake" any list, without properties, such that a cycle can
\* be reached from some schema; the registry has every name, or lacks
\* "Thing"; or it has every name, "Thing" extends nothing and declares a
\* reverse that has no name.
Reaches(e, m, s, t) ==
    LET RECURSIVE Within(_, _)
        Within(x, depth) ==
            IF depth = 0 \/ x \notin m THEN {}
            ELSE LET next == {e[x][i] : i \in 1..Len(e[x])}
                 IN  next \cup UNION {Within(p, depth - 1) : p \in next}
    IN  t \in Within(s, Cardinality(Schemas))

CyclicExtends ==
    {e \in [Schemas -> DistinctSeqs(Schemas, MaxExtends)] :
        /\ \A s \in Schemas \ {"Stake"} : Len(e[s]) <= 1
        /\ \E s \in Schemas : Reaches(e, Schemas, s, s)}

CyclicDefinitions ==
    {SchemaSpecs(x[1], x[2], Declared({}, <<>>)) :
        x \in {y \in {Schemas, Schemas \ {"Thing"}} \X CyclicExtends :
                  /\ \A s \in Schemas \ y[1] : y[2][s] = <<>>
                  /\ \E s \in y[1] : Reaches(y[2], y[1], s, s)}}
    \cup {SchemaSpecs(Schemas, e, Declared({}, <<"Thing", "Thing", None>>)) :
            e \in {y \in CyclicExtends : y["Thing"] = <<>>}}

InitCyclic == \E d \in CyclicDefinitions : Construct(d)

NextCyclic == Next \/ RecursionError

CyclicSpec ==
    InitCyclic /\ [][NextCyclic]_vars /\ WF_vars(Generate \/ RecursionError)

(***************************************************************************)
(* Two loads of one definition set.  The registry (Model, outside src/)    *)
(* calls generate() once on every schema, in any order; it is then built   *)
(* again from the same definitions and loaded in any order once more, with *)
(* the outcome of the first load kept for comparison.                      *)
(***************************************************************************)
\* The registry calls schema.generate() on a schema it has not called yet.
CallOnce(s) ==
    /\ status = "ok" /\ stack = <<>>
    /\ s \in model \ called
    /\ stack' = <<Frame(s)>>
    /\ called' = called \cup {s}
    /\ validation' = NoValidation
    /\ matched' = NoMatch
    /\ serialized' = NoDict
    /\ UNCHANGED <<declared, first_load, fields, _matchable_schemata, extends,
                   schemata, names, descendants, properties, props, status,
                   generated>>

\* The registry has called every schema once and every call has returned.
LoadedOnce == status = "ok" /\ stack = <<>> /\ called = model

\* What a load leaves on the schemas.
Outcome ==
    [properties |-> properties, props |-> props, extends |-> extends,
     schemata |-> schemata, names |-> names, descendants |-> descendants]

\* After a complete load the outcome is kept and every Schema is constructed
\* again from the same definitions (lines 168-186).
Reload ==
    /\ LoadedOnce /\ first_load = <<>>
    /\ first_load' = <<Outcome>>
    /\ called' = {}
    /\ extends' = [s \in Schemas |-> {}]
    /\ schemata' = [s \in Schemas |-> {s}]
    /\ names' = [s \in Schemas |-> {s}]
    /\ descendants' = [s \in Schemas |-> {}]
    /\ _matchable_schemata' = [s \in Schemas |-> <<>>]
    /\ properties' = declared.properties
    /\ props' = declared.props
    /\ generated' = {}
    /\ UNCHANGED <<declared, fields, validation, matched, serialized, stack,
                   status>>

\* The definitions for the two loads: the chain "Thing", "Party", "Firm"
\* with "Stake" anywhere below; nothing is declared, or "Thing" and "Party"
\* declare "name" and any schema may declare "owner" with any range and the
\* reverse name "holdings" or "name"; the chain with a reverse that has no
\* name; the chain where "Stake" declares "owner" with range "Thing" and
\* reverse "holdings", which "Party" lists as featured; and the chain over a
\* registry that lacks a name.
OrderDefinitions ==
    {SchemaSpecs(Schemas, x[1], Declared({"Thing", "Party"}, x[2])) :
        x \in MatchHierarchies \X Links({"Thing", "Party"})}
    \cup {WithLists(SchemaSpecs(Schemas, e,
                                Declared({}, <<"Stake", "Thing", "holdings">>)),
                    "Party", Lists(<<"holdings">>, <<>>, <<>>, None, None)) :
            e \in MatchHierarchies}
    \cup {SchemaSpecs(Schemas, e, Declared({}, link)) :
            <<e, link>> \in
                MatchHierarchies \X {<<>>, <<"Stake", "Stake", None>>}}
    \cup {d \in Unregistered : d.extends \in MatchHierarchies}

InitOrder == \E d \in OrderDefinitions : Construct(d)

NextOrder == (\E s \in Schemas : CallOnce(s)) \/ Generate \/ Reload

OrderSpec == InitOrder /\ [][NextOrder]_vars

\* Python runs a call that has begun to its end: the steps of generate()
\* are taken as long as one is possible.
LiveSpec == InitHierarchy /\ [][Next]_vars /\ WF_vars(Generate)

\* The schemas named in the extends list of s.
Parents(s) == {_extends[s][i] : i \in 1..Len(_extends[s])}

\* C1: once generate() has completed for every schema, schemata is the
\* schema itself united with the schemata of its direct parents, extends is
\* the set of schemas its extends list names, and names is the set of the
\* names of the members of schemata.
C1_ClosureCorrect ==
    Loaded =>
        \A s \in model :
            /\ schemata[s] = {s} \cup UNION {schemata[p] : p \in Parents(s)}
            /\ extends[s] = Parents(s)
            /\ names[s] = {a : a \in schemata[s]}

\* A loaded diamond: a schema with two parents and their common ancestor.
C1_Witness ==
    /\ Loaded
    /\ \E s \in model :
           /\ Cardinality(extends[s]) = 2
           /\ Cardinality(schemata[s]) = 4
           /\ \E a \in model : \A p \in extends[s] : a \in extends[p]

\* C2: once generate() has completed for every schema, descendants is the
\* inverse of schemata without the schema itself.
C2_DescendantsInverse ==
    Loaded =>
        \A p \in model, s \in model :
            s \in descendants[p] <=> (p \in schemata[s] /\ p # s)

\* A loaded hierarchy where a schema has a descendant that is not its child.
C2_Witness ==
    /\ Loaded
    /\ \E p \in model, s \in model :
           s \in descendants[p] /\ p \notin extends[s]

\* C3 as stated: after the load every name of a parent's properties is in
\* the child's properties and refers to the same property object.
C3_Original ==
    Loaded =>
        \A child \in model : \A parent \in extends[child] :
            \A n \in Keys(properties[parent]) :
                /\ has(properties[child], n)
                /\ get(properties[child], n) = get(properties[parent], n)

\* C3 amended: after the load every name of a parent's properties that is
\* not a reverse stub is in the child's properties, and the child's entry
\* for a name of the parent is the child's own property of that name (its
\* declaration or its stub) or the very object one of its parents holds
\* under that name.
C3_InheritanceVisible ==
    Loaded =>
        \A child \in model : \A parent \in extends[child] :
            \A n \in Keys(properties[parent]) :
                /\ ~props[get(properties[parent], n)].stub =>
                       has(properties[child], n)
                /\ has(properties[child], n) =>
                       \/ get(properties[child], n) = PropertyId(child, n)
                       \/ \E q \in extends[child] :
                              /\ has(properties[q], n)
                              /\ get(properties[child], n) =
                                     get(properties[q], n)

\* A loaded child that holds a declared property and a reverse stub of its
\* parent by reference, next to a parent with a stub the child lacks.
C3_Witness ==
    /\ Loaded
    /\ \E child \in model : \E parent \in extends[child] :
           \E n, r \in Keys(properties[parent]) :
               /\ get(properties[parent], n) = PropertyId(parent, n)
               /\ ~props[PropertyId(parent, n)].stub
               /\ props[get(properties[parent], r)].stub
               /\ has(properties[child], n) /\ has(properties[child], r)
               /\ get(properties[child], n) = get(properties[parent], n)
               /\ get(properties[child], r) = get(properties[parent], r)
    /\ \E child \in model : \E parent \in extends[child] :
           \E r \in Keys(properties[parent]) :
               /\ props[get(properties[parent], r)].stub
               /\ ~has(properties[child], r)

(***************************************************************************)
(* A repeated call returns: the call on top of the stack, on a schema for  *)
(* which a call had returned before (directly by the registry, or reached  *)
(* again through a diamond), ends without an exception.                    *)
(***************************************************************************)
RepeatedCallReturns ==
    stack # <<>> /\ Top.again /\ stack' = Pop /\ status' = "ok"

IsPrefix(a, b) == Len(a) <= Len(b) /\ SubSeq(b, 1, Len(a)) = a

\* C4 as stated: a repeated call leaves the properties, schemata and
\* descendants of every schema as they were just before the call.
C4_Original ==
    [][RepeatedCallReturns =>
          /\ properties' = Top.entry.properties
          /\ schemata' = Top.entry.schemata
          /\ descendants' = Top.entry.descendants]_vars

\* C4 amended: a repeated call leaves the schemata and descendants of every
\* schema as they were just before the call and changes no entry of a
\* properties map; a map may gain entries, each of them a reverse stub that
\* an ancestor of the schema received after the schema had merged it.
C4_RepeatedGenerate ==
    [][RepeatedCallReturns =>
          /\ schemata' = Top.entry.schemata
          /\ descendants' = Top.entry.descendants
          /\ \A s \in Schemas :
                 /\ IsPrefix(Top.entry.properties[s], properties'[s])
                 /\ \A i \in 1..Len(properties'[s]) :
                        i > Len(Top.entry.properties[s]) =>
                            /\ props'[properties'[s][i]].stub
                            /\ properties'[s][i].schema \in schemata[s] \ {s}]_vars

\* A call that reached an already generated schema again through a second
\* parent is about to return, and the schema has gained a property since
\* the call began.
C4_Witness ==
    /\ Running /\ Len(stack) >= 2
    /\ Top.again /\ Top.pc = "for" /\ Top.i > Len(_extends[Top.self])
    /\ stack[Len(stack) - 1].i = 2
    /\ Len(properties[Top.self]) > Len(Top.entry.properties[Top.self])
    /\ generate_tail(Top.self).err = None

\* The exceptions of a broken definition (InvalidData of line 194,
\* InvalidModel of lines 212-234).
ConfigurationErrors ==
    {"Invalid extends", "Missing featured property",
     "Missing caption property", "Missing required property",
     "Missing edge source", "Missing edge target", "Unnamed reverse"}

\* The names a generate() call on s looks up: the extends list of s and of
\* every schema the recursion reaches.
RECURSIVE LookedUp(_, _)
LookedUp(s, depth) ==
    IF depth = 0 \/ s \notin model THEN {}
    ELSE Parents(s) \cup UNION {LookedUp(p, depth - 1) : p \in Parents(s)}

Unresolvable(s) ==
    \E n \in LookedUp(s, Cardinality(Schemas)) : n \notin model

\* C5: generate() on a schema with an unresolvable name in its extends list,
\* or in that of an ancestor the recursion reaches, never returns normally
\* and always ends in a configuration error.
C5_MissingExtendsFails ==
    /\ [](\A s \in generated : ~Unresolvable(s))
    /\ \A s \in Schemas :
           (stack # <<>> /\ stack[1].self = s /\ Unresolvable(s))
               ~> (stack = <<>> /\ status \in ConfigurationErrors)

\* The load was ended by a missing parent that is not the first name of the
\* extends list it is in, below a schema that was called by the registry.
C5_Witness ==
    /\ status = "Invalid extends"
    /\ generated # {}
    /\ \E s \in model :
           /\ Len(_extends[s]) = 2
           /\ _extends[s][1] \in generated
           /\ _extends[s][2] \notin model
           /\ \E c \in model : s \in Parents(c) /\ Unresolvable(c)

\* C10: over an acyclic extends relation the recursion is never deeper than
\* the number of schemas, and every call of generate(), at every depth of
\* the recursion, eventually returns or fails.
C10_GenerateTerminates ==
    /\ [](Len(stack) <= Cardinality(model))
    /\ \A k \in 1..Cardinality(Schemas) :
           (Len(stack) >= k) ~> (Len(stack) < k)

\* Inside the call on a second parent, the call on an ancestor that the
\* first parent had generated already has returned.
C10_Witness ==
    /\ Running /\ Len(stack) = 2
    /\ Top.pc = "merge" /\ Top.i = 1
    /\ stack[1].i = 2
    /\ \E a \in generated :
           /\ a \in Parents(_extends[stack[1].self][1])
           /\ a \in Parents(Top.self)

\* The names a schema lists: featured, required and caption and, for an
\* edge, its two endpoints.
Listed(s) ==
    {featured[s][i] : i \in 1..Len(featured[s])}
    \cup {required[s][i] : i \in 1..Len(required[s])}
    \cup {caption[s][i] : i \in 1..Len(caption[s])}
    \cup (IF edge(s) THEN {edge_source[s], edge_target[s]} ELSE {})

\* The call on top of the stack has left the loop over _extends: its next
\* step is the property pass and the checks of lines 207-229.
AtChecks ==
    Running /\ Top.pc = "for" /\ Top.i > Len(_extends[Top.self])

\* C6: a schema for which generate() has returned has every listed name,
\* and both endpoints of its edge, as keys of its properties; a call returns
\* only then, and when the checks find a listed name that is not a key of
\* the properties they read, the call ends in a configuration error.
C6_ListedNamesResolve ==
    /\ [](\A s \in generated : Listed(s) \subseteq Keys(properties[s]))
    /\ [][AtChecks =>
             /\ (status' = "ok" /\ stack' = Pop) =>
                    Listed(Top.self) \subseteq Keys(properties'[Top.self])
             /\ ~(Listed(Top.self) \subseteq Keys(properties'[Top.self])) =>
                    /\ status' \in ConfigurationErrors
                    /\ stack' = <<>>
                    /\ generated' = generated]_vars

\* The call on "Stake" has returned with a caption that names an inherited
\* property and a reverse stub, or with an edge between the two.
C6_Witness ==
    /\ "Stake" \in generated
    /\ Listed("Stake") = {"name", "holdings"}
    /\ get(properties["Stake"], "name").schema # "Stake"
    /\ props[get(properties["Stake"], "holdings")].stub
    /\ (caption["Stake"] # <<>> \/ edge("Stake"))

\* The keys of the errors of a validate() call.
ErrorKeys(errors) == {errors[i].name : i \in 1..Len(errors)}

\* C7: validate() reports every offending property: the keys of the error
\* mapping are the names of the merged properties whose validator rejects
\* the input's values, or accepts them while the values are empty and the
\* name is required (with the error "Required"); it fails exactly when the
\* mapping is not empty, and an input key that is no property name is not
\* in the mapping.
C7_ValidateAggregates ==
    [][validation'.schema # None =>
          LET self == validation'.schema
              items == ensure_dict(validation'.data.properties)
              errors == validation'.errors
              Values(n) == ensure_list(dict_get(items, n))
              Rejected(n) ==
                  Property_validate(get(properties[self], n), Values(n)) # None
              Absent(n) ==
                  /\ ~Rejected(n)
                  /\ Values(n) = <<>>
                  /\ \E i \in 1..Len(required[self]) : required[self][i] = n
          IN  /\ ErrorKeys(errors) =
                     {n \in Keys(properties[self]) : Rejected(n) \/ Absent(n)}
              /\ \A i \in 1..Len(errors) :
                     errors[i].error = "Required" <=> Absent(errors[i].name)
              /\ validation'.raised <=> errors # <<>>
              /\ \A k \in DOMAIN items :
                     k \notin Keys(properties[self]) =>
                         k \notin ErrorKeys(errors)]_vars

\* validate() has failed with two entries, an invalid inherited property
\* and a missing required one, on an input with an invalid unknown key.
C7_Witness ==
    /\ validation.schema # None
    /\ validation.raised
    /\ Len(validation.errors) = 2
    /\ \E i, j \in 1..2 :
           /\ validation.errors[i].error = "Required"
           /\ validation.errors[j].error = "Invalid value"
           /\ get(properties[validation.schema],
                  validation.errors[j].name).schema # validation.schema
    /\ validation.data.properties.kind = "dict"
    /\ "junk" \in DOMAIN validation.data.properties.items
    /\ validation.data.properties.items["junk"] = PyScalar("bad")

\* The ancestors of s in the definitions: s itself and what its parents
\* inherit from.
RECURSIVE Closure(_)
Closure(s) == {s} \cup UNION {Closure(p) : p \in Parents(s)}

\* The matchable schemas among the ancestors and the descendants of s.
MatchableRelatives(s) ==
    {t \in model : matchable[t] /\ (t \in Closure(s) \/ s \in Closure(t))}

\* C8: a first read of matchable_schemata after the load caches the empty
\* set for a schema that is not matchable and otherwise the matchable
\* members of its schemata and descendants, which are its ancestors, itself
\* and its descendants; can_match(other) is membership of other in the
\* cached set.
C8_MatchableSchemata ==
    /\ [](matched.self # None =>
             (matched.result <=>
                 matched.other \in _matchable_schemata[matched.self][1]))
    /\ [][\A s \in model :
             (Loaded /\ _matchable_schemata[s] = <<>>
                     /\ _matchable_schemata'[s] # <<>>) =>
                 LET set == _matchable_schemata'[s][1]
                 IN  /\ ~matchable[s] => set = {}
                     /\ matchable[s] =>
                            /\ set = {t \in schemata[s] \cup descendants[s] :
                                         matchable[t]}
                            /\ set = MatchableRelatives(s)]_vars

\* can_match() was true for a schema and one of its descendants, with a
\* schema between them that is not matchable, and was computed as empty for
\* a schema that is not matchable.
C8_Witness ==
    /\ matched.self # None /\ matched.result
    /\ matched.other \in descendants[matched.self]
    /\ \E t \in descendants[matched.self] :
           /\ ~matchable[t]
           /\ matched.other \in descendants[t]
           /\ _matchable_schemata[t] = <<{}>>

\* A step is the first read of matchable_schemata of schema s.
FirstRead(s) == _matchable_schemata[s] = <<>> /\ _matchable_schemata'[s] # <<>>

\* A set that was cached stays the cached set in every step.
Memoized ==
    \A s \in Schemas :
        _matchable_schemata[s] # <<>> =>
            _matchable_schemata'[s] = _matchable_schemata[s]

\* C9 as stated: two matchable schemas of which one is among the schemata or
\* the descendants of the other are each in the matchable_schemata of the
\* other, whenever the two sets were read.
C9_Original ==
    \A A \in model, B \in model :
        (/\ _matchable_schemata[A] # <<>> /\ _matchable_schemata[B] # <<>>
         /\ matchable[A] /\ matchable[B]
         /\ B \in schemata[A] \cup descendants[A]) =>
            /\ A \in _matchable_schemata[B][1]
            /\ B \in _matchable_schemata[A][1]

\* C9 amended: the first read of A.matchable_schemata, for a matchable A,
\* caches every matchable B that is among the schemata or the descendants
\* of A, or has A among its own, at the time of that read, and a cached set
\* is never recomputed; so A and B are each in the set of the other when
\* both sets are first read while the relation holds, as after the load,
\* and a set cached before the relation was built can lack the other.
C9_BothWaysWhenRead ==
    [][/\ Memoized
       /\ \A A \in model, B \in model :
              (/\ FirstRead(A)
               /\ matchable[A] /\ matchable[B]
               /\ \/ B \in schemata[A] \cup descendants[A]
                  \/ A \in schemata[B] \cup descendants[B]) =>
                  /\ B \in _matchable_schemata'[A][1]
                  /\ _matchable_schemata[B] = <<>> =>
                         A \in matchable_schemata(_matchable_schemata',
                                                  B)[B][1]]_vars

\* After the load both sets are cached for a matchable schema and a
\* matchable descendant that is not its child, each holding the other,
\* while the set of a matchable ancestor of both, cached before the
\* descendant was linked, lacks it.
C9_Witness ==
    /\ Loaded
    /\ \E A \in model, B \in model :
           /\ _matchable_schemata[A] # <<>> /\ _matchable_schemata[B] # <<>>
           /\ matchable[A] /\ matchable[B]
           /\ B \in descendants[A] /\ A \notin extends[B]
           /\ A \in _matchable_schemata[B][1]
           /\ B \in _matchable_schemata[A][1]
           /\ \E C \in schemata[A] \ {A} :
                  /\ matchable[C]
                  /\ _matchable_schemata[C] # <<>>
                  /\ B \notin _matchable_schemata[C][1]

\* The properties for which Property.generate calls _add_reverse: those
\* that declare a reverse and have a range.
ReverseCalls ==
    {p \in DOMAIN props :
        props[p].reverse # NoReverse /\ props[p].range \in model}

\* The effect of the call of _add_reverse that Property.generate makes for
\* property p in this state: only the properties of the range B can change;
\* with the name present nothing changes, with the name absent B gains the
\* one entry of a stub whose range is the schema of p.
AddReverseFrame(p) ==
    LET B == props[p].range
        name == props[p].reverse
        h == Heap(properties, props)
        r == _add_reverse(h, B, name, p)
        stub == PropertyId(B, name)
    IN  /\ \A q \in DOMAIN props : r.props[q] = props[q]
        /\ IF name = None THEN r.properties = properties /\ r.err # None
           ELSE IF has(properties[B], name)
           THEN r.properties = properties /\ r.props = props /\ r.err = None
           ELSE /\ r.err = None
                /\ r.properties =
                       [properties EXCEPT ![B] = Append(@, stub)]
                /\ DOMAIN r.props = DOMAIN props \cup {stub}
                /\ r.props[stub].stub
                /\ r.props[stub].range = p.schema

\* C11: _add_reverse on schema B, whether or not generate() has returned
\* for B, leaves schemata, names, extends and descendants and every entry of
\* every properties map as they are; it adds one entry to the properties of
\* B, a stub whose range is the schema of the originating property, when
\* the name is absent, and nothing when the name is present.
C11_AddReverseFrame ==
    /\ [](\A p \in ReverseCalls : AddReverseFrame(p))
    /\ [][AtChecks =>
             /\ UNCHANGED <<schemata, names, extends, descendants>>
             /\ \A q \in DOMAIN props : props'[q] = props[q]
             /\ \A s \in Schemas :
                    /\ IsPrefix(properties[s], properties'[s])
                    /\ \A i \in 1..Len(properties'[s]) :
                           i > Len(properties[s]) =>
                               LET q == properties'[s][i]
                               IN  /\ q.schema = s
                                   /\ q.name \notin Keys(properties[s])
                                   /\ props'[q].stub
                                   /\ \E p \in ReverseCalls :
                                          /\ props[p].range = s
                                          /\ props[p].reverse = q.name
                                          /\ props'[q].range = p.schema]_vars

\* A call on a child has just called generate() on its parent, and that
\* call added a stub to a schema outside the parent's schemata for which
\* generate() had returned before and which had a property already.
C11_Witness ==
    /\ Running /\ Top.pc = "merge"
    /\ \E B \in generated \ schemata[_extends[Top.self][Top.i]] :
           /\ Len(properties[B]) = Len(Top.entry.properties[B]) + 1
           /\ props[properties[B][Len(properties[B])]].stub
           /\ props[properties[B][Len(properties[B])]].range
                  \in schemata[_extends[Top.self][Top.i]]
           /\ Len(Top.entry.properties[B]) > 0

\* The defaults of the flags (lines 120-134).
FlagDefaults ==
    [abstract |-> FALSE, hidden |-> FALSE, generated |-> FALSE,
     matchable |-> TRUE]

\* The value of a flag of schema s.
FlagValue(s, f) == IF f = "matchable" THEN matchable[s] ELSE flags[s][f]

\* C12: to_dict() has the key of a flag exactly when the value of the flag
\* is not its default, so that a missing key stands for the default.
C12_SparseFlags ==
    serialized.schema # None =>
        \A f \in FlagNames :
            f \in DOMAIN serialized.data <=>
                FlagValue(serialized.schema, f) # FlagDefaults[f]

\* The elements of a list.
Elements(lst) == {lst[i] : i \in 1..Len(lst)}

\* The property names that a reader of the serialized hierarchy merges for
\* schema s: the serialized properties of s and what it merges for each
\* name of the serialized extends of s.
RECURSIVE Remerged(_)
Remerged(s) ==
    Elements(to_dict(s)["properties"])
    \cup UNION {Remerged(p) : p \in Elements(to_dict(s)["extends"])}

\* to_dict() of schema s lists the properties whose schema is s, and no
\* other.
ListsOwn(s) ==
    Elements(to_dict(s)["properties"]) =
        {n \in Keys(properties[s]) : get(properties[s], n).schema = s}

\* C13 as stated: after the load to_dict() lists the properties a schema
\* owns, and merging the serialized properties along the serialized extends
\* gives every schema the names of its properties map.
C13_Original ==
    Loaded =>
        \A s \in model : ListsOwn(s) /\ Remerged(s) = Keys(properties[s])

\* C13 amended: after the load to_dict() lists the properties a schema
\* owns, and merging the serialized properties along the serialized extends
\* gives every schema the names of its properties map and, beyond them,
\* only names of reverse stubs that belong to its ancestors.
C13_RoundTrip ==
    Loaded =>
        \A s \in model :
            /\ ListsOwn(s)
            /\ Keys(properties[s]) \subseteq Remerged(s)
            /\ \A n \in Remerged(s) \ Keys(properties[s]) :
                   \E a \in schemata[s] \ {s} :
                       /\ has(properties[a], n)
                       /\ get(properties[a], n) = PropertyId(a, n)
                       /\ props[PropertyId(a, n)].stub

\* to_dict() ran on a loaded schema that owns a declared property and a
\* reverse stub, while for one of its descendants the merge of the
\* serialized hierarchy gives the name of the stub, which the properties of
\* the descendant lack, and for another it gives the names of its map.
C13_Witness ==
    /\ Loaded
    /\ serialized.schema # None
    /\ LET a == serialized.schema
       IN  /\ Len(serialized.data["properties"]) = 2
           /\ \E n \in Elements(serialized.data["properties"]) :
                  /\ props[PropertyId(a, n)].stub
                  /\ \E s \in descendants[a] :
                         /\ n \in Remerged(s)
                         /\ n \notin Keys(properties[s])
           /\ \E s \in descendants[a] :
                  Remerged(s) = Keys(properties[s])

\* C14: after validate() has run, the caller's input has only keys that
\* are names of the properties of the schema.
C14_DropsUnknownKeys ==
    validation.schema # None =>
        DOMAIN ensure_dict(validation.data.properties)
            \subseteq Keys(properties[validation.schema])

\* Schema s declares property x in its definition.
Declares(s, x) ==
    PropertyId(s, x) \in DOMAIN props /\ ~props[PropertyId(s, x)].stub

\* Schema s holds a reverse stub of its own named x.
HasStub(s, x) ==
    PropertyId(s, x) \in DOMAIN props /\ props[PropertyId(s, x)].stub

\* No property at all.
NoProperty == PropertyId(None, None)

\* The declaration of x that the definitions give schema s: its own, or
\* that of the first schema of its extends list that has one.
RECURSIVE Resolve(_, _)
Resolve(s, x) ==
    IF Declares(s, x) THEN PropertyId(s, x)
    ELSE LET with == {i \in 1..Len(_extends[s]) :
                         Resolve(_extends[s][i], x) # NoProperty}
         IN  IF with = {} THEN NoProperty
             ELSE Resolve(_extends[s][CHOOSE i \in with :
                                         \A j \in with : i <= j], x)

\* The positions in the extends list of s of the parents that have x.
ParentsWith(s, x) ==
    {i \in 1..Len(_extends[s]) : has(properties[_extends[s][i]], x)}

\* The entry for x of the first parent of s, in the order of the extends
\* list, that has x.
FirstParent(s, x) ==
    get(properties[_extends[s][CHOOSE i \in ParentsWith(s, x) :
                                  \A j \in ParentsWith(s, x) : i <= j]], x)

\* C15 as stated: a generated schema that does not declare x and has
\* several parents with x holds the entry of the first of them in the order
\* of its extends list, which is the one the definitions give it whatever
\* the order of the calls.
C15_Original ==
    \A C \in generated : \A x \in PropNames :
        (~Declares(C, x) /\ Cardinality(ParentsWith(C, x)) >= 2) =>
            /\ has(properties[C], x)
            /\ get(properties[C], x) = FirstParent(C, x)
            /\ get(properties[C], x) = Resolve(C, x)

\* C15 amended: the same, for a name x that is the name of no reverse stub
\* on the schema or its ancestors.
C15_FirstParentWins ==
    \A C \in generated : \A x \in PropNames :
        (/\ ~Declares(C, x)
         /\ Cardinality(ParentsWith(C, x)) >= 2
         /\ \A a \in schemata[C] : ~HasStub(a, x)) =>
            /\ has(properties[C], x)
            /\ get(properties[C], x) = FirstParent(C, x)
            /\ get(properties[C], x) = Resolve(C, x)

\* A loaded schema whose two parents hold different declarations of a name
\* it does not declare holds the one of the parent it names first, which in
\* SchemaOrder comes second.
C15_Witness ==
    /\ Loaded
    /\ \E C \in model : \E x \in PropNames :
           /\ ~Declares(C, x)
           /\ Len(_extends[C]) = 2
           /\ Rank(_extends[C][1]) > Rank(_extends[C][2])
           /\ has(properties[_extends[C][1]], x)
           /\ has(properties[_extends[C][2]], x)
           /\ get(properties[_extends[C][1]], x)
                  # get(properties[_extends[C][2]], x)
           /\ get(properties[C], x) = get(properties[_extends[C][1]], x)
           /\ \A a \in schemata[C] : ~HasStub(a, x)

\* C16: no step removes or rebinds an entry of a properties map or changes
\* a property object, a declared property stays the entry of its name on
\* its schema, and schemata, names, extends and descendants only grow.
C16_NeverRebound ==
    /\ [](\A s \in Schemas : \A x \in PropNames :
             Declares(s, x) =>
                 /\ has(properties[s], x)
                 /\ get(properties[s], x) = PropertyId(s, x))
    /\ [][/\ (\A s \in Schemas : \A n \in Keys(properties[s]) :
                  /\ has(properties'[s], n)
                  /\ get(properties'[s], n) = get(properties[s], n))
           /\ (\A q \in DOMAIN props :
                  q \in DOMAIN props' /\ props'[q] = props[q])
           /\ (\A s \in Schemas :
                  /\ schemata[s] \subseteq schemata'[s]
                  /\ names[s] \subseteq names'[s]
                  /\ extends[s] \subseteq extends'[s]
                  /\ descendants[s] \subseteq descendants'[s])]_vars

\* A loaded schema that declares a name its parent declares too holds its
\* own declaration of it next to an inherited entry and a reverse stub.
C16_Witness ==
    /\ Loaded
    /\ \E s \in model : \E p \in extends[s] : \E x \in PropNames :
           /\ Declares(s, x) /\ Declares(p, x)
           /\ get(properties[s], x) = PropertyId(s, x)
           /\ \E n \in Keys(properties[s]) :
                  get(properties[s], n).schema # s
           /\ \E n \in Keys(properties[s]) : HasStub(s, n)

\* matchable_schemata of schema s as the spec defines it, over the graph of
\* the definitions.
FinalMatchable(s) == IF matchable[s] THEN MatchableRelatives(s) ELSE {}

\* C17 as stated: a cached set is never replaced, and the set that a first
\* read caches is the definition over the final graph only if the read
\* comes after the load.
C17_Original ==
    [][/\ Memoized
       /\ \A s \in model :
              (FirstRead(s) /\ _matchable_schemata'[s][1] = FinalMatchable(s))
                  => Loaded]_vars

\* C17 amended: a cached set is never replaced; a first read caches the
\* definition over the graph as it is at the read, which is a subset of the
\* definition over the final graph and, after the load, equal to it.
C17_MemoizedForever ==
    [][/\ Memoized
       /\ \A s \in model :
              FirstRead(s) =>
                  LET set == _matchable_schemata'[s][1]
                  IN  /\ set = IF matchable[s]
                               THEN {t \in schemata[s] \cup descendants[s] :
                                        matchable[t]}
                               ELSE {}
                      /\ set \subseteq FinalMatchable(s)
                      /\ Loaded => set = FinalMatchable(s)]_vars

\* After the load the set of one schema, cached before a matchable
\* descendant was linked, lacks that descendant, and the set of another
\* schema, cached earlier too, has its ancestor and is the definition over
\* the final graph.
C17_Witness ==
    /\ Loaded
    /\ \E s \in model :
           /\ _matchable_schemata[s] # <<>>
           /\ \E t \in descendants[s] :
                  /\ matchable[t] /\ matchable[s]
                  /\ t \notin _matchable_schemata[s][1]
                  /\ _matchable_schemata[t] # <<>>
                  /\ s \in _matchable_schemata[t][1]
                  /\ _matchable_schemata[t][1] = FinalMatchable(t)

\* A cycle of the extends relation can be reached from schema s through
\* registered schemas: s is on a cycle or leads into one.
IntoCycle(s) ==
    \E t \in model :
        /\ t = s \/ Reaches(_extends, model, s, t)
        /\ Reaches(_extends, model, t, t)

\* The registry's call in progress is on a schema on or leading into a
\* cycle.
CyclicCall == stack # <<>> /\ IntoCycle(stack[1].self)

\* C18 as stated: a call on a schema on or leading into a cycle never
\* returns, never raises a configuration error, and never ends.
C18_Original ==
    /\ [](\A s \in generated : ~IntoCycle(s))
    /\ [][CyclicCall =>
             status' \notin ConfigurationErrors /\ stack' # <<>>]_vars

\* C18 amended: a call on a schema on or leading into a cycle never
\* returns; it ends with RecursionError at the recursion limit, or with a
\* configuration error raised before the limit is reached, and with
\* RecursionError whenever every name it can look up resolves and no schema
\* declares a property.
C18_CycleNotDetected ==
    /\ [](\A s \in generated : ~IntoCycle(s))
    /\ [][CyclicCall /\ stack' = <<>> =>
             /\ status' \in {"RecursionError"} \cup ConfigurationErrors
             /\ (~Unresolvable(stack[1].self) /\ DOMAIN props = {}) =>
                    status' = "RecursionError"]_vars
    /\ \A s \in Schemas :
           (stack # <<>> /\ stack[1].self = s /\ IntoCycle(s))
               ~> (stack = <<>> /\ status # "ok")

\* The load ended with RecursionError in a registry where a schema that is
\* on no cycle leads into a cycle of two schemas, after generate() had
\* returned for a schema.
C18_Witness ==
    /\ status = "RecursionError"
    /\ generated # {}
    /\ \E s \in model, a \in model, b \in model :
           /\ a # b /\ _extends[a] = <<b>> /\ _extends[b] = <<a>>
           /\ ~Reaches(_extends, model, s, s)
           /\ Reaches(_extends, model, s, a)

\* The value of self.can_match(other) in the current state (lines 313-315):
\* membership of other in self.matchable_schemata, which is read from the
\* cache or computed and cached by this call.
can_match(self, other) ==
    other \in matchable_schemata(_matchable_schemata, self)[self][1]

\* C20: with matchable_schemata read only after the load of an acyclic
\* graph, can_match is symmetric for every pair of schemas, false when
\* either of the two is not matchable, and true of a schema and itself
\* exactly when the schema is matchable; the calls that ran agree.
C20_CanMatchSymmetric ==
    /\ Loaded =>
           \A A \in model, B \in model :
               /\ can_match(A, B) <=> can_match(B, A)
               /\ (~matchable[A] \/ ~matchable[B]) => ~can_match(A, B)
               /\ can_match(A, A) <=> matchable[A]
    /\ (Loaded /\ matched.self # None) =>
           /\ matched.result <=> can_match(matched.self, matched.other)
           /\ matched.result <=> can_match(matched.other, matched.self)

\* can_match() ran in both directions for a matchable schema and a
\* matchable descendant that is not its child, and a call on a schema that
\* is not matchable, between the two, answered false for that descendant.
C20_Witness ==
    /\ Loaded /\ matched.self # None /\ ~matched.result
    /\ ~matchable[matched.self] /\ matchable[matched.other]
    /\ matched.other \in descendants[matched.self]
    /\ \E A \in schemata[matched.self] \ {matched.self} :
           /\ matchable[A]
           /\ _matchable_schemata[A] # <<>>
           /\ _matchable_schemata[matched.other] # <<>>
           /\ matched.other \in _matchable_schemata[A][1]
           /\ A \in _matchable_schemata[matched.other][1]

\* The properties a schema's map binds in the outcome o of a load; the name
\* bound is part of the property.
Bound(o, s) == {o.properties[s][i] : i \in 1..Len(o.properties[s])}

\* Whether the outcome o binds name x on schema s to a stub.
BoundToStub(o, s, x) ==
    \E q \in Bound(o, s) : q.name = x /\ o.props[q].stub

\* Every name that outcome a binds on s to a property that is not a stub is
\* bound by outcome b to the same property or to a stub.
AgreeUpToStubs(a, b, s) ==
    \A p \in Bound(a, s) :
        ~a.props[p].stub =>
            \/ p \in Bound(b, s) /\ b.props[p] = a.props[p]
            \/ BoundToStub(b, s, p.name)

====
